---- MODULE Spec2Model ----
(***************************************************************************)
(* A model of the AURORA pipeline: frame cropping, per-frame probability   *)
(* aggregation, the three-model ensemble, GradCAM heatmaps with their      *)
(* batch and generator drivers, and the /predict request handler.          *)
(*                                                                         *)
(* Floating-point numbers are modelled as exact rationals [num, den] with  *)
(* a separate NaN value.  Strings are sequences of one-character strings,  *)
(* so that strip() and lower() are computed, not assumed.                  *)
(***************************************************************************)
EXTENDS Integers, Sequences, FiniteSets, TLC

VARIABLES
    \* ---- cnn_predictor.aggregate_probs ----
    probs,            \* the per-frame probability vector passed in
    method,           \* the method name passed in
    agg_pc,           \* "call" | "done"
    agg_result,       \* outcome of the call
    \* ---- dicom_processor._crop ----
    img,              \* shape of the frame passed in: [h, w]
    crop_pc,          \* "call" | "done"
    crop_result,      \* the region of img that is returned
    \* ---- ensemble_predictor.predict_ensemble ----
    bundle,           \* the slots of the loaded bundle
    number_prior_cs,  \* argument
    previa,           \* argument (a string)
    cnn_prob,         \* argument
    threshold,        \* argument
    ens_pc,           \* "call" | "done"
    model_out,        \* what each sub-model's predict_proba returned
    ens_queries,      \* the (slot, feature row) queries made, in order
    ens_result,       \* outcome of the call
    \* ---- gradcam.compute_heatmap ----
    conv_out,         \* activations of the target layer: pixel -> channel -> value
    grads,            \* d(positive-class output)/d(conv_out), same shape
    hm_pc,            \* "call" | "done"
    heatmap,          \* the returned map: pixel -> value
    \* ---- gradcam.compute_gradcam_all / compute_gradcam_generator ----
    cnn_model,        \* the CNN: frame -> activations and gradients
    frames,           \* preprocessed_frames, the batch (0-based in the code)
    max_frames,       \* the cap
    all_pc,           \* batch mode: "call" | "loop" | "done" | "raised"
    all_locals,       \* batch mode locals: indices, pos, results
    all_return,       \* the list returned by compute_gradcam_all
    gen_pc,           \* generator position
    gen_locals,       \* generator locals
    yielded,          \* the dicts the caller has received, in order
    \* ---- app.predict ----
    app_state,        \* _state: cnn_model and ensemble_bundle, set by lifespan
    env,              \* what the CNN and the sub-models may answer
    req_in,           \* request -> its form fields
    req_pc,           \* request -> position in predict()
    req_loc,          \* request -> locals of predict()
    response,         \* request -> the response sent, or None
    fs                \* the temporary directory: files [name, owner]

aggVars  == <<probs, method, agg_pc, agg_result>>
cropVars == <<img, crop_pc, crop_result>>
ensVars  == <<bundle, number_prior_cs, previa, cnn_prob, threshold, ens_pc,
              model_out, ens_queries, ens_result>>
hmVars   == <<conv_out, grads, hm_pc, heatmap>>
gcVars   == <<cnn_model, frames, max_frames, all_pc, all_locals, all_return,
              gen_pc, gen_locals, yielded>>
appVars  == <<app_state, env, req_in, req_pc, req_loc, response, fs>>
vars     == <<aggVars, cropVars, ensVars, hmVars, gcVars, appVars>>

None == "None"

(***************************************************************************)
(* Bounds of the model.                                                    *)
(***************************************************************************)
MaxLen  == 3      \* longest probability vector
PDen    == 2      \* probabilities are drawn from the grid 0/PDen .. PDen/PDen
MaxH    == 67     \* tallest frame
MaxW    == 218    \* widest frame
MaxStr  == 4      \* longest covariate string
MaxCS   == 1      \* largest prior-surgery count
NPix    == 2      \* pixels of the activation map
MaxN    == 4      \* most frames in a batch
MaxCap  == 3      \* largest cap on sampled frames
NReq    == 2      \* requests in flight together

(***************************************************************************)
(* Numbers: exact rationals and NaN.                                       *)
(***************************************************************************)
NaN     == [nan |-> TRUE, num |-> 0, den |-> 1]
Rat(n, d) == [nan |-> FALSE, num |-> n, den |-> d]
IsNaN(a) == a.nan

RECURSIVE GCD(_, _)
GCD(a, b) == IF b = 0 THEN a ELSE GCD(b, a % b)

Abs(i) == IF i < 0 THEN 0 - i ELSE i

\* a rational in lowest terms with a positive denominator
Norm(n, d) ==
    LET g == GCD(Abs(n), d) IN
    IF g = 0 THEN Rat(0, 1) ELSE Rat(n \div g, d \div g)

\* IEEE comparisons: every comparison with NaN is false
GE(a, b) == ~a.nan /\ ~b.nan /\ a.num * b.den >= b.num * a.den
GT(a, b) == ~a.nan /\ ~b.nan /\ a.num * b.den >  b.num * a.den
NumEq(a, b) == ~a.nan /\ ~b.nan /\ a.num * b.den = b.num * a.den
\* the same float: equal numbers, or both NaN
Same(a, b) == (a.nan /\ b.nan) \/ NumEq(a, b)

\* IEEE addition and division by a positive count
Add(a, b) ==
    IF a.nan \/ b.nan THEN NaN
    ELSE Norm(a.num * b.den + b.num * a.den, a.den * b.den)
DivInt(a, k) ==
    IF a.nan \/ k = 0 THEN NaN ELSE Norm(a.num, a.den * k)

Sign(i) == IF i < 0 THEN 0 - 1 ELSE IF i > 0 THEN 1 ELSE 0

Mul(a, b) ==
    IF a.nan \/ b.nan THEN NaN ELSE Norm(a.num * b.num, a.den * b.den)
\* IEEE division: 0/0 is NaN, x/0 is +-inf (written num/0), no exception
Div(a, b) ==
    IF a.nan \/ b.nan THEN NaN
    ELSE IF b.num = 0
         THEN (IF a.num = 0 THEN NaN ELSE Rat(Sign(a.num), 0))
         ELSE Norm(Sign(b.num) * a.num * b.den, a.den * Abs(b.num))

Half == Rat(1, 2)
Zero == Rat(0, 1)

ProbGrid == {Rat(k, PDen) : k \in 0..PDen}

(***************************************************************************)
(* Strings: sequences of characters, with str.lower() and str.strip().     *)
(***************************************************************************)
UPPER == <<"A","B","C","D","E","F","G","H","I","J","K","L","M",
           "N","O","P","Q","R","S","T","U","V","W","X","Y","Z">>
LOWER == <<"a","b","c","d","e","f","g","h","i","j","k","l","m",
           "n","o","p","q","r","s","t","u","v","w","x","y","z">>

LowerChar(c) ==
    IF \E i \in 1..26 : UPPER[i] = c
    THEN LOWER[CHOOSE i \in 1..26 : UPPER[i] = c]
    ELSE c
UpperChar(c) ==
    IF \E i \in 1..26 : LOWER[i] = c
    THEN UPPER[CHOOSE i \in 1..26 : LOWER[i] = c]
    ELSE c

\* str.lower()
StrLower(s) == [i \in 1..Len(s) |-> LowerChar(s[i])]

Whitespace == {" ", "\t", "\n"}

\* every spelling of word w in upper and lower case
RECURSIVE CaseVariants(_)
CaseVariants(w) ==
    IF Len(w) = 0 THEN {<<>>}
    ELSE {<<c>> \o t : c \in {w[1], UpperChar(w[1])}, t \in CaseVariants(Tail(w))}

S_mean   == <<"m","e","a","n">>
S_max    == <<"m","a","x">>
S_median == <<"m","e","d","i","a","n">>

(***************************************************************************)
(* cnn_predictor.aggregate_probs                                           *)
(***************************************************************************)
Returned(v) == [kind |-> "return", value |-> v]
Raised(e)   == [kind |-> "raise",  value |-> e]

\* numpy's _replace_nan(arr, 0): NaN entries become 0
ReplaceNaN(v) == [i \in 1..Len(v) |-> IF v[i].nan THEN Zero ELSE v[i]]
CountNotNaN(v) == Cardinality({i \in 1..Len(v) : ~v[i].nan})

RECURSIVE SumSeq(_)
SumSeq(v) == IF Len(v) = 0 THEN Zero ELSE Add(v[1], SumSeq(Tail(v)))

\* np.nanmean: sum with NaN replaced by 0, divided by the count of non-NaN
\* entries; 0/0 is NaN (a RuntimeWarning, not an exception)
NanMean(v) == DivInt(SumSeq(ReplaceNaN(v)), CountNotNaN(v))

\* np.fmax: the maximum that prefers the non-NaN operand
FMax(a, b) ==
    IF a.nan THEN b ELSE IF b.nan THEN a ELSE IF GE(a, b) THEN a ELSE b

RECURSIVE FMaxReduce(_)
FMaxReduce(v) == IF Len(v) = 1 THEN v[1] ELSE FMax(v[1], FMaxReduce(Tail(v)))

\* np.nanmax on a non-empty array: fmax.reduce (NaN only if all are NaN)
NanMax(v) == FMaxReduce(v)

\* the non-NaN entries, in order
RECURSIVE RemoveNaN(_)
RemoveNaN(v) ==
    IF Len(v) = 0 THEN <<>>
    ELSE IF v[1].nan THEN RemoveNaN(Tail(v))
    ELSE <<v[1]>> \o RemoveNaN(Tail(v))

\* insertion of x into an ascending sequence
RECURSIVE Insert(_, _)
Insert(x, s) ==
    IF Len(s) = 0 THEN <<x>>
    ELSE IF GE(s[1], x) THEN <<x>> \o s
    ELSE <<s[1]>> \o Insert(x, Tail(s))

RECURSIVE SortAsc(_)
SortAsc(v) == IF Len(v) = 0 THEN <<>> ELSE Insert(v[1], SortAsc(Tail(v)))

\* np.nanmedian: drop NaN, sort, take the middle (mean of the two middles)
NanMedian(v) ==
    LET s == SortAsc(RemoveNaN(v))
        k == Len(s)
    IN  IF k = 0 THEN NaN
        ELSE IF k % 2 = 1 THEN s[(k + 1) \div 2]
        ELSE DivInt(Add(s[k \div 2], s[k \div 2 + 1]), 2)

\* a variant that validates the method name after computing, but reduces
\* with the plain NaN-propagating operations
FMaxReducePlain(v) ==
    IF \E i \in 1..Len(v) : v[i].nan THEN NaN ELSE FMaxReduce(v)

aggregate_probs_no_lower(p, m) ==
    IF Len(p) = 0 THEN Returned(NaN)
    ELSE IF m = S_mean THEN Returned(NanMean(p))
    ELSE IF m = S_max THEN Returned(NanMax(p))
    ELSE IF m = S_median THEN Returned(NanMedian(p))
    ELSE Raised("ValueError")

aggregate_probs_nan_propagating(p, m) ==
    LET lm == StrLower(m) IN
    IF Len(p) = 0 THEN Returned(NaN)
    ELSE IF lm = S_mean THEN Returned(DivInt(SumSeq(p), Len(p)))
    ELSE IF lm = S_max THEN Returned(FMaxReducePlain(p))
    ELSE IF lm = S_median THEN
        Returned(IF \E i \in 1..Len(p) : p[i].nan THEN NaN ELSE NanMedian(p))
    ELSE Raised("ValueError")

aggregate_probs(p, m) ==
    IF Len(p) = 0 THEN Returned(NaN)
    ELSE LET lm == StrLower(m) IN
         IF lm = S_mean THEN Returned(NanMean(p))
         ELSE IF lm = S_max THEN Returned(NanMax(p))
         ELSE IF lm = S_median THEN Returned(NanMedian(p))
         ELSE Raised("ValueError")

ProbValues  == ProbGrid \cup {NaN}
ProbVectors == UNION {[1..k -> ProbValues] : k \in 0..MaxLen}

UnknownMethods ==
    { <<>>, <<"m","o","d","e">>, <<"m","e","a","n","s">>, <<"m","i","n">>,
      <<"M","A">>, <<"a","v","g">> }
MethodNames ==
    CaseVariants(S_mean) \cup CaseVariants(S_max) \cup CaseVariants(S_median)
        \cup UnknownMethods

AggIdle ==
    /\ probs = <<>>
    /\ method = S_mean
    /\ agg_pc = "idle"
    /\ agg_result = None

AggInit ==
    /\ probs \in ProbVectors
    /\ method \in MethodNames
    /\ agg_pc = "call"
    /\ agg_result = None

AggregateCall ==
    /\ agg_pc = "call"
    /\ agg_result' = aggregate_probs(probs, method)
    /\ agg_pc' = "done"
    /\ UNCHANGED <<probs, method>>

(***************************************************************************)
(* dicom_processor._crop                                                   *)
(***************************************************************************)
_CROP_TOP   == 65
_CROP_LEFT  == 66
_CROP_RIGHT == 150

Min(a, b) == IF a < b THEN a ELSE b
Max(a, b) == IF a > b THEN a ELSE b

\* a[lo:hi] on an axis of length n, for lo >= 0: the kept index range
\* [start, stop) after Python's clamping of slice bounds
SliceAxis(lo, hi, n) ==
    LET stop  == IF hi < 0 THEN Max(hi + n, 0) ELSE Min(hi, n)
        start == Min(lo, n)
    IN  [start |-> start, len |-> Max(stop - start, 0)]

WholeAxis(n) == [start |-> 0, len |-> n]

_crop_no_guard(im) ==
    [rows |-> SliceAxis(_CROP_TOP, im.h, im.h),
     cols |-> SliceAxis(_CROP_LEFT, im.w - _CROP_RIGHT, im.w)]

_crop(im) ==
    LET h      == im.h
        w      == im.w
        top    == _CROP_TOP
        left   == _CROP_LEFT
        bottom == h
        right  == w - _CROP_RIGHT
    IN  IF bottom <= top \/ right <= left
        THEN [rows |-> WholeAxis(h), cols |-> WholeAxis(w)]
        ELSE [rows |-> SliceAxis(top, bottom, h),
              cols |-> SliceAxis(left, right, w)]

CropIdle ==
    /\ img = [h |-> 1, w |-> 1]
    /\ crop_pc = "idle"
    /\ crop_result = None

CropInit ==
    /\ img \in [h : 1..MaxH, w : 1..MaxW]
    /\ crop_pc = "call"
    /\ crop_result = None

CropCall ==
    /\ crop_pc = "call"
    /\ crop_result' = _crop(img)
    /\ crop_pc' = "done"
    /\ UNCHANGED img

(***************************************************************************)
(* ensemble_predictor._previa_to_bin and predict_ensemble                  *)
(***************************************************************************)
S_yes == <<"y","e","s">>
S_y   == <<"y">>
S_no  == <<"n","o">>
S_n   == <<"n">>

RECURSIVE LStrip(_)
LStrip(s) ==
    IF Len(s) > 0 /\ s[1] \in Whitespace THEN LStrip(Tail(s)) ELSE s

RECURSIVE RStrip(_)
RStrip(s) ==
    IF Len(s) > 0 /\ s[Len(s)] \in Whitespace
    THEN RStrip(SubSeq(s, 1, Len(s) - 1)) ELSE s

\* str.strip()
StrStrip(s) == RStrip(LStrip(s))

\* a variant with a silent default: whatever is not yes/y counts as no
_previa_to_bin_default(pv) ==
    LET v == StrLower(StrStrip(pv)) IN
    IF v \in {S_yes, S_y} THEN Returned(1) ELSE Returned(0)

_previa_to_bin(pv) ==
    LET v == StrLower(StrStrip(pv)) IN
    IF v \in {S_yes, S_y} THEN Returned(1)
    ELSE IF v \in {S_no, S_n} THEN Returned(0)
    ELSE Raised("ValueError")

Slots == <<"log_model", "rf_model", "gb_model">>

\* the queries made up to the first slot missing from the bundle
RECURSIVE QueriesMade(_, _, _)
QueriesMade(b, X, k) ==
    IF k > Len(Slots) \/ Slots[k] \notin b THEN <<>>
    ELSE <<[slot |-> Slots[k], X |-> X]>> \o QueriesMade(b, X, k + 1)

\* a variant that decides with > instead of >=
predict_ensemble_gt(b, cs, pv, cp, thr, outs) ==
    LET pb == _previa_to_bin(pv) IN
    IF pb.kind = "raise" THEN [result |-> pb, queries |-> <<>>]
    ELSE
    LET X  == <<cs, pb.value, cp>>
        q  == QueriesMade(b, X, 1)
        ep == DivInt(Add(Add(outs.log_model, outs.rf_model), outs.gb_model), 3)
    IN  IF Len(q) < Len(Slots)
        THEN [result |-> Raised("KeyError"), queries |-> q]
        ELSE [result |-> Returned(
                 [ensemble_prob |-> ep,
                  ensemble_pred |-> IF GT(ep, thr) THEN 1 ELSE 0,
                  log_prob |-> outs.log_model,
                  rf_prob  |-> outs.rf_model,
                  gb_prob  |-> outs.gb_model]),
              queries |-> q]

\* outs: what predict_proba(X)[0][1] of each slot returns
predict_ensemble(b, cs, pv, cp, thr, outs) ==
    LET pb == _previa_to_bin(pv) IN
    IF pb.kind = "raise" THEN [result |-> pb, queries |-> <<>>]
    ELSE
    LET previa_bin == pb.value
        X  == <<cs, previa_bin, cp>>
        q  == QueriesMade(b, X, 1)
        log_prob == outs.log_model
        rf_prob  == outs.rf_model
        gb_prob  == outs.gb_model
        ensemble_prob == DivInt(Add(Add(log_prob, rf_prob), gb_prob), 3)
        ensemble_pred == IF GE(ensemble_prob, thr) THEN 1 ELSE 0
    IN  IF Len(q) < Len(Slots)
        THEN [result |-> Raised("KeyError"), queries |-> q]
        ELSE [result |-> Returned(
                 [ensemble_prob |-> ensemble_prob,
                  ensemble_pred |-> ensemble_pred,
                  log_prob |-> log_prob,
                  rf_prob  |-> rf_prob,
                  gb_prob  |-> gb_prob]),
              queries |-> q]

ExpectedSlots == {"log_model", "rf_model", "gb_model"}
ModelOutputs  == [ExpectedSlots -> ProbGrid]
\* the sub-models answer only when the call gets as far as querying them
OutputsFor(pv) ==
    IF _previa_to_bin(pv).kind = "raise"
    THEN {[s \in ExpectedSlots |-> NaN]}
    ELSE ModelOutputs

PreviaAlphabet == {"y","Y","e","E","s","S","n","N","o","O"," ","x"}
PreviaStrings  == UNION {[1..k -> PreviaAlphabet] : k \in 0..MaxStr}
PreviaSamples  ==
    { S_yes, <<"Y">>, S_no, <<"N">>, <<" ","n","O"," ">>,
      <<"m","a","y","b","e">>, <<>> }

EnsIdle ==
    /\ bundle = {}
    /\ number_prior_cs = 0
    /\ previa = <<>>
    /\ cnn_prob = NaN
    /\ threshold = Half
    /\ ens_pc = "idle"
    /\ model_out = None
    /\ ens_queries = <<>>
    /\ ens_result = None

\* predict_ensemble called with any covariates, score and threshold
EnsInit ==
    /\ bundle = ExpectedSlots
    /\ number_prior_cs \in 0..MaxCS
    /\ previa \in PreviaSamples
    /\ cnn_prob \in ProbValues
    /\ threshold \in ProbGrid \cup {Half}
    /\ ens_pc = "call"
    /\ model_out = None
    /\ ens_queries = <<>>
    /\ ens_result = None

\* predict_ensemble called with any covariate string
CovInit ==
    /\ bundle = ExpectedSlots
    /\ number_prior_cs = 0
    /\ previa \in PreviaStrings
    /\ cnn_prob = Half
    /\ threshold = Half
    /\ ens_pc = "call"
    /\ model_out = None
    /\ ens_queries = <<>>
    /\ ens_result = None

PredictEnsembleCall ==
    /\ ens_pc = "call"
    /\ \E outs \in OutputsFor(previa) :
         LET r == predict_ensemble(bundle, number_prior_cs, previa, cnn_prob,
                                   threshold, outs)
         IN  /\ ens_result' = r.result
             /\ ens_queries' = r.queries
             /\ model_out' = [s \in {r.queries[i].slot : i \in 1..Len(r.queries)}
                                |-> outs[s]]
    /\ ens_pc' = "done"
    /\ UNCHANGED <<bundle, number_prior_cs, previa, cnn_prob, threshold>>

(***************************************************************************)
(* gradcam.compute_heatmap                                                 *)
(***************************************************************************)
Pixels   == 1..NPix
Channels == {"c1", "c2"}
ActVals  == {0 - 1, 0, 1}

RECURSIVE SumOfInts(_, _)
SumOfInts(f, I) ==
    IF I = {} THEN 0
    ELSE LET i == CHOOSE j \in I : TRUE IN f[i] + SumOfInts(f, I \ {i})

RECURSIVE SumRat(_, _)
\* the sum of f[i] over the finite set I
SumRat(f, I) ==
    IF I = {} THEN Zero
    ELSE LET i == CHOOSE j \in I : TRUE IN Add(f[i], SumRat(f, I \ {i}))

\* tf.reduce_mean(grads, axis=(0, 1, 2)): one weight per channel
PooledGrads(g) ==
    [c \in Channels |->
        DivInt(SumRat([p \in Pixels |-> Rat(g[p][c], 1)], Pixels), NPix)]

\* conv_out @ pooled_grads[..., newaxis], squeezed: one value per pixel
WeightedSum(conv, pooled) ==
    [p \in Pixels |->
        SumRat([c \in Channels |-> Mul(Rat(conv[p][c], 1), pooled[c])], Channels)]

\* tf.nn.relu
Relu(h) == [p \in Pixels |-> IF GT(h[p], Zero) THEN h[p] ELSE Zero]

\* tf.reduce_max
ReduceMax(h) == CHOOSE x \in {h[p] : p \in Pixels} : \A q \in Pixels : GE(x, h[q])

\* a variant without the ReLU
compute_heatmap_no_relu(conv, g) ==
    LET h       == WeightedSum(conv, PooledGrads(g))
        max_val == ReduceMax(h)
    IN  IF GT(max_val, Zero) THEN [p \in Pixels |-> Div(h[p], max_val)] ELSE h

compute_heatmap(conv, g) ==
    LET pooled_grads == PooledGrads(g)
        h            == Relu(WeightedSum(conv, pooled_grads))
        max_val      == ReduceMax(h)
    IN  IF GT(max_val, Zero)
        THEN [p \in Pixels |-> Div(h[p], max_val)]
        ELSE h

ActMaps == [Pixels -> [Channels -> ActVals]]

HmIdle ==
    /\ conv_out = None
    /\ grads = None
    /\ hm_pc = "idle"
    /\ heatmap = None

HmInit ==
    /\ conv_out \in ActMaps
    /\ grads \in ActMaps
    /\ hm_pc = "call"
    /\ heatmap = None

ComputeHeatmapCall ==
    /\ hm_pc = "call"
    /\ heatmap' = compute_heatmap(conv_out, grads)
    /\ hm_pc' = "done"
    /\ UNCHANGED <<conv_out, grads>>

(***************************************************************************)
(* gradcam.compute_gradcam_all and compute_gradcam_generator               *)
(***************************************************************************)
_JPEG_QUALITY == 75

\* int(round(num / den)) for num >= 0, den > 0: Python 3 rounds halves to even
RoundHalfEven(num, den) ==
    LET q == num \div den
        r == num % den
    IN  IF 2 * r < den THEN q
        ELSE IF 2 * r > den THEN q + 1
        ELSE IF q % 2 = 0 THEN q ELSE q + 1

\* int(num / den): truncation
Truncate(num, den) == num \div den

\* sorted(set(xs))
RECURSIVE SortedOfSet(_)
SortedOfSet(S) ==
    IF S = {} THEN <<>>
    ELSE LET lo == CHOOSE x \in S : \A y \in S : x <= y
         IN  <<lo>> \o SortedOfSet(S \ {lo})

SeqRange(xs) == {xs[i] : i \in 1..Len(xs)}

\* the sampling with the frame count in place of the last index
indices_scaled_by_n(n, mf) ==
    IF n <= mf THEN Returned([i \in 1..n |-> i - 1])
    ELSE IF mf >= 1 /\ mf - 1 = 0 THEN Raised("ZeroDivisionError")
    ELSE Returned(SortedOfSet(SeqRange(
            [i \in 1..Max(mf, 0) |-> RoundHalfEven((i - 1) * n, mf - 1)])))

\* the sampling with truncation in place of rounding
indices_truncated(n, mf) ==
    IF n <= mf THEN Returned([i \in 1..n |-> i - 1])
    ELSE IF mf >= 1 /\ mf - 1 = 0 THEN Raised("ZeroDivisionError")
    ELSE Returned(SortedOfSet(SeqRange(
            [i \in 1..Max(mf, 0) |-> Truncate((i - 1) * (n - 1), mf - 1)])))

\* compute_gradcam_all, lines 140-147
all_indices(n, mf) ==
    IF n <= mf THEN Returned([i \in 1..n |-> i - 1])
    ELSE IF mf >= 1 /\ mf - 1 = 0 THEN Raised("ZeroDivisionError")
    ELSE Returned(SortedOfSet(SeqRange(
            [i \in 1..Max(mf, 0) |-> RoundHalfEven((i - 1) * (n - 1), mf - 1)])))

\* compute_gradcam_generator, lines 186-192
generator_indices(n, mf) ==
    IF n <= mf THEN Returned([i \in 1..n |-> i - 1])
    ELSE IF mf >= 1 /\ mf - 1 = 0 THEN Raised("ZeroDivisionError")
    ELSE Returned(SortedOfSet(SeqRange(
            [i \in 1..Max(mf, 0) |-> RoundHalfEven((i - 1) * (n - 1), mf - 1)])))

\* np.clip(frame_arr, 0, 255).astype(np.uint8)
ClipU8(x) == Max(0, Min(x, 255))

\* frame_to_b64_jpeg: the JPEG of an RGB array at the given quality
frame_to_b64_jpeg(rgb, quality) ==
    [format |-> "jpeg", quality |-> quality, image |-> rgb]

\* (heatmap * 255).astype(np.uint8)
HeatmapU8(h) == [p \in DOMAIN h |-> (h[p].num * 255) \div h[p].den]

\* heatmap_to_b64_jpeg: scale to uint8, resize to (W, H), colour with jet, encode
heatmap_to_b64_jpeg(h, H, W, quality) ==
    frame_to_b64_jpeg([cmap |-> "jet", size |-> <<H, W>>, data |-> HeatmapU8(h)],
                      quality)

\* preprocessed_frames[idx], idx 0-based
FrameAt(batch, idx) == batch[idx + 1]

\* frame_u8 of a frame, and its raw_b64
FrameU8(f)  == [size |-> <<f.H, f.W>>, data |-> ClipU8(f.val)]
RawB64(f)   == frame_to_b64_jpeg(FrameU8(f), _JPEG_QUALITY)
\* compute_heatmap(grad_model, preprocessed_frames[idx : idx + 1])
HeatmapOf(model, f) == compute_heatmap(model[f.val].conv, model[f.val].grads)

\* one iteration of the loop of compute_gradcam_all, lines 152-169
AllFrameResult(model, batch, idx) ==
    LET frame_arr == FrameAt(batch, idx)
        raw_b64   == RawB64(frame_arr)
        hm        == HeatmapOf(model, frame_arr)
        heatmap_b64 == heatmap_to_b64_jpeg(hm, frame_arr.H, frame_arr.W,
                                           _JPEG_QUALITY)
    IN  [frame_idx |-> idx, raw_b64 |-> raw_b64, heatmap_b64 |-> heatmap_b64]

FrameVals   == {0, 255}
FrameValues == [H : {256}, W : {256}, val : FrameVals]
Batches     == UNION {[1..k -> FrameValues] : k \in 0..MaxN}

\* what the network gives for a frame: activations and their gradients
ActSamples ==
    { [conv |-> [p \in Pixels |-> [c \in Channels |-> 0]],
       grads |-> [p \in Pixels |-> [c \in Channels |-> 0]]],
      [conv |-> [p \in Pixels |-> [c \in Channels |-> IF p = 1 THEN 1 ELSE 0 - 1]],
       grads |-> [p \in Pixels |-> [c \in Channels |-> 1]]],
      [conv |-> [p \in Pixels |-> [c \in Channels |-> IF c = "c1" THEN p ELSE 1]],
       grads |-> [p \in Pixels |-> [c \in Channels |-> IF c = "c1" THEN 1 ELSE 0]]] }
CnnModels == [FrameVals -> ActSamples]

NoGenLocals ==
    [indices |-> <<>>, total |-> 0, progress |-> 0, idx |-> 0,
     raw_b64 |-> None, heatmap |-> None, heatmap_b64 |-> None]
NoAllLocals == [indices |-> <<>>, pos |-> 0, results |-> <<>>]

GcIdle ==
    /\ cnn_model = None
    /\ frames = <<>>
    /\ max_frames = 0
    /\ all_pc = "idle"
    /\ all_locals = NoAllLocals
    /\ all_return = None
    /\ gen_pc = "idle"
    /\ gen_locals = NoGenLocals
    /\ yielded = <<>>

GcInit ==
    /\ cnn_model \in CnnModels
    /\ frames \in Batches
    /\ max_frames \in 0..MaxCap
    /\ all_pc = "call"
    /\ all_locals = NoAllLocals
    /\ all_return = None
    /\ gen_pc = "NotStarted"
    /\ gen_locals = NoGenLocals
    /\ yielded = <<>>

genInputs == <<cnn_model, frames, max_frames>>
allState  == <<all_pc, all_locals, all_return>>
genState  == <<gen_pc, gen_locals, yielded>>

\* ---- compute_gradcam_all ----
\* lines 140-150: sampling, then the empty result list
AllSample ==
    /\ all_pc = "call"
    /\ LET r == all_indices(Len(frames), max_frames) IN
         IF r.kind = "raise"
         THEN /\ all_pc' = "raised"
              /\ UNCHANGED all_locals
         ELSE /\ all_pc' = "loop"
              /\ all_locals' = [indices |-> r.value, pos |-> 0, results |-> <<>>]
    /\ UNCHANGED <<all_return, genInputs, genState>>

\* lines 152-169: one sampled frame
AllFrame ==
    /\ all_pc = "loop"
    /\ all_locals.pos < Len(all_locals.indices)
    /\ LET idx == all_locals.indices[all_locals.pos + 1] IN
         all_locals' = [all_locals EXCEPT
             !.pos = @ + 1,
             !.results = Append(@, AllFrameResult(cnn_model, frames, idx))]
    /\ UNCHANGED <<all_pc, all_return, genInputs, genState>>

\* line 171
AllReturn ==
    /\ all_pc = "loop"
    /\ all_locals.pos = Len(all_locals.indices)
    /\ all_return' = all_locals.results
    /\ all_pc' = "done"
    /\ UNCHANGED <<all_locals, genInputs, genState>>

\* ---- compute_gradcam_generator ----
\* the caller's next(): the body runs from where it was suspended
GenNext ==
    /\ gen_pc \in {"NotStarted", "Suspended"}
    /\ gen_pc' = IF gen_pc = "NotStarted" THEN "Sampling" ELSE "LoopHead"
    /\ UNCHANGED <<gen_locals, yielded, genInputs, allState>>

\* lines 186-195: sampling, grad model, total
GenSample ==
    /\ gen_pc = "Sampling"
    /\ LET r == generator_indices(Len(frames), max_frames) IN
         IF r.kind = "raise"
         THEN /\ gen_pc' = "Raised"
              /\ UNCHANGED gen_locals
         ELSE /\ gen_pc' = "LoopHead"
              /\ gen_locals' = [gen_locals EXCEPT !.indices = r.value,
                                                  !.total = Len(r.value)]
    /\ UNCHANGED <<yielded, genInputs, allState>>

\* line 197: the next (progress, idx) of enumerate(indices, start=1), or the end
GenLoopHead ==
    /\ gen_pc = "LoopHead"
    /\ IF gen_locals.progress < Len(gen_locals.indices)
       THEN /\ gen_locals' = [gen_locals EXCEPT
                                !.progress = @ + 1,
                                !.idx = gen_locals.indices[gen_locals.progress + 1]]
            /\ gen_pc' = "Raw"
       ELSE /\ gen_pc' = "Done"
            /\ UNCHANGED gen_locals
    /\ UNCHANGED <<yielded, genInputs, allState>>

\* lines 198-204: the raw frame, encoded
GenRaw ==
    /\ gen_pc = "Raw"
    /\ gen_pc' = "Heatmap"
    /\ gen_locals' = [gen_locals EXCEPT
                        !.raw_b64 = RawB64(FrameAt(frames, gen_locals.idx))]
    /\ UNCHANGED <<yielded, genInputs, allState>>

\* a variant that takes the heatmap of preprocessed_frames[0:1] for every frame
GenHeatmapFirstFrame ==
    /\ gen_pc = "Heatmap"
    /\ gen_pc' = "Encode"
    /\ gen_locals' = [gen_locals EXCEPT
                        !.heatmap = HeatmapOf(cnn_model, FrameAt(frames, 0))]
    /\ UNCHANGED <<yielded, genInputs, allState>>

\* lines 205-206: the heatmap of the frame
GenHeatmap ==
    /\ gen_pc = "Heatmap"
    /\ gen_pc' = "Encode"
    /\ gen_locals' = [gen_locals EXCEPT
                        !.heatmap = HeatmapOf(cnn_model, FrameAt(frames, gen_locals.idx))]
    /\ UNCHANGED <<yielded, genInputs, allState>>

\* line 207: the heatmap, coloured and encoded
GenEncode ==
    /\ gen_pc = "Encode"
    /\ gen_pc' = "Yield"
    /\ LET f == FrameAt(frames, gen_locals.idx) IN
         gen_locals' = [gen_locals EXCEPT
             !.heatmap_b64 = heatmap_to_b64_jpeg(gen_locals.heatmap, f.H, f.W,
                                                 _JPEG_QUALITY)]
    /\ UNCHANGED <<yielded, genInputs, allState>>

\* lines 209-215: the yield
GenYield ==
    /\ gen_pc = "Yield"
    /\ yielded' = Append(yielded,
                         [frame_idx   |-> gen_locals.idx,
                          raw_b64     |-> gen_locals.raw_b64,
                          heatmap_b64 |-> gen_locals.heatmap_b64,
                          progress    |-> gen_locals.progress,
                          total       |-> gen_locals.total])
    /\ gen_pc' = "Suspended"
    /\ UNCHANGED <<gen_locals, genInputs, allState>>

(***************************************************************************)
(* app.predict                                                             *)
(***************************************************************************)
Tenth(k) == Rat(k, 10)

\* round(float(x), 4) for x >= 0
Round4(x) == IF x.nan THEN NaN ELSE Norm(RoundHalfEven(x.num * 10000, x.den), 10000)

\* json.dumps(..., allow_nan=False) in JSONResponse refuses a NaN
JsonCompliant(floats) == \A i \in 1..Len(floats) : ~floats[i].nan

\* lines 161-162, with > in place of >=
RiskLevelStrict(final_prob) == IF GT(final_prob, Half) THEN "HIGH" ELSE "LOW"

\* line 161: ensemble_result.get("ensemble_prob", cnn_prob)
FinalProb(ensemble_result, cp) ==
    IF "ensemble_prob" \in DOMAIN ensemble_result
    THEN ensemble_result.ensemble_prob ELSE cp
\* line 162
RiskLevel(final_prob) == IF GE(final_prob, Half) THEN "HIGH" ELSE "LOW"
\* line 148: int(cnn_prob >= 0.5)
CnnPred(cp) == IF GE(cp, Half) THEN 1 ELSE 0

\* ensemble_result: dict = {}
EmptyDict == [k \in {} |-> None]
\* _state["ensemble_bundle"]: None, or the bundle with its slots
NoBundle == [loaded |-> FALSE, slots |-> {}]
Bundle(slots) == [loaded |-> TRUE, slots |-> slots]

TmpNames == {"tmpA.dcm", "tmpB.dcm", "tmpC.dcm"}
FileNames(files) == {f.name : f \in files}

NoLocals ==
    [tmp |-> None, tmp_path |-> None, per_frame_probs |-> None,
     cnn_prob |-> None, cnn_pred |-> None, ensemble_result |-> EmptyDict,
     final_prob |-> None, risk_level |-> None]

ExampleProbs ==
    <<Tenth(1), Tenth(2), Tenth(9), Tenth(3), Tenth(1),
      Tenth(2), Tenth(1), Tenth(4), Tenth(2), Tenth(1)>>
ExampleOuts ==
    [s \in ExpectedSlots |->
        IF s = "log_model" THEN Tenth(8)
        ELSE IF s = "rf_model" THEN Tenth(6) ELSE Tenth(7)]

RichEnv ==
    [probs |-> {v \in ProbVectors : Len(v) <= 2} \cup {ExampleProbs},
     outs  |-> ModelOutputs \cup {ExampleOuts}]
PlainEnv ==
    [probs |-> {<<Tenth(4), Tenth(8)>>},
     outs  |-> {ExampleOuts}]

FormMethods == {S_mean, <<"M","A","X">>, S_median, <<"m","o","d","e">>}
FormPrevia  == {S_yes, <<"N">>, <<"m","a","y","b","e">>}
FormFields ==
    [agg_method : FormMethods, previa : FormPrevia,
     num_prior_cs : {2}, too_large : BOOLEAN]
PlainFormFields ==
    [agg_method : {S_mean, <<"m","o","d","e">>},
     previa : {S_yes, <<"m","a","y","b","e">>},
     num_prior_cs : {2}, too_large : {FALSE}]

AppStates ==
    [cnn_model : {None, "cnn"}, ensemble_bundle : {NoBundle, Bundle(ExpectedSlots)}]

AppIdle ==
    /\ app_state = [cnn_model |-> None, ensemble_bundle |-> NoBundle]
    /\ env = [probs |-> {}, outs |-> {}]
    /\ req_in = <<>>
    /\ req_pc = <<>>
    /\ req_loc = <<>>
    /\ response = <<>>
    /\ fs = {}

AppStart(R) ==
    /\ req_pc = [r \in R |-> "start"]
    /\ req_loc = [r \in R |-> NoLocals]
    /\ response = [r \in R |-> None]
    /\ fs = {}

\* one request, any form fields and any answers of the models
AppInit ==
    /\ app_state \in AppStates
    /\ env = RichEnv
    /\ req_in \in [{1} -> FormFields]
    /\ AppStart({1})

\* NReq requests together
TempInit ==
    /\ app_state \in {st \in AppStates : st.cnn_model # None}
    /\ env = PlainEnv
    /\ req_in \in [1..NReq -> PlainFormFields]
    /\ AppStart(1..NReq)

Requests == DOMAIN req_in

Goto(r, pc) == req_pc' = [req_pc EXCEPT ![r] = pc]
\* an exception inside the try block: control goes to the except clauses
Throw(r) ==
    /\ Goto(r, "except")
    /\ UNCHANGED <<req_loc, response, fs>>
Reply(r, resp) == response' = [response EXCEPT ![r] = resp]
HttpError(code) == [status |-> code]
appInputs == <<app_state, env, req_in>>

\* lines 117-124: no CNN loaded means 503
P_Start(r) ==
    /\ req_pc[r] = "start"
    /\ IF app_state.cnn_model = None
       THEN Goto(r, "done") /\ Reply(r, HttpError(503))
       ELSE Goto(r, "read") /\ UNCHANGED response
    /\ UNCHANGED <<req_loc, fs, appInputs>>

\* lines 127-132: the upload is read and its size checked
P_Read(r) ==
    /\ req_pc[r] = "read"
    /\ IF req_in[r].too_large
       THEN Goto(r, "done") /\ Reply(r, HttpError(413))
       ELSE Goto(r, "mktemp") /\ UNCHANGED response
    /\ UNCHANGED <<req_loc, fs, appInputs>>

\* line 135: NamedTemporaryFile(suffix=".dcm", delete=False) creates a file
\* under a name that is not in use, or fails
P_MkTemp(r) ==
    /\ req_pc[r] = "mktemp"
    /\ \/ \E name \in TmpNames \ FileNames(fs) :
            /\ fs' = fs \cup {[name |-> name, owner |-> r]}
            /\ req_loc' = [req_loc EXCEPT ![r].tmp = name]
            /\ Goto(r, "write")
            /\ UNCHANGED response
       \/ Throw(r)
    /\ UNCHANGED appInputs

\* line 136: tmp.write(contents); on an OSError the with block closes the
\* file, which stays on disk (delete=False)
P_Write(r) ==
    /\ req_pc[r] = "write"
    /\ \/ Goto(r, "assign") /\ UNCHANGED <<req_loc, response, fs>>
       \/ Throw(r)
    /\ UNCHANGED appInputs

\* line 137: tmp_path = tmp.name
P_Assign(r) ==
    /\ req_pc[r] = "assign"
    /\ req_loc' = [req_loc EXCEPT ![r].tmp_path = req_loc[r].tmp]
    /\ Goto(r, "load")
    /\ UNCHANGED <<response, fs, appInputs>>

\* lines 140-142: load_dicom_frames, dicom_info
P_Load(r) ==
    /\ req_pc[r] = "load"
    /\ \/ Goto(r, "preprocess") /\ UNCHANGED <<req_loc, response, fs>>
       \/ Throw(r)
    /\ UNCHANGED appInputs

\* line 143: preprocess_frames
P_Preprocess(r) ==
    /\ req_pc[r] = "preprocess"
    /\ \/ Goto(r, "cnn") /\ UNCHANGED <<req_loc, response, fs>>
       \/ Throw(r)
    /\ UNCHANGED appInputs

\* line 146: predict_frames
P_Cnn(r) ==
    /\ req_pc[r] = "cnn"
    /\ \/ \E v \in env.probs :
            /\ req_loc' = [req_loc EXCEPT ![r].per_frame_probs = v]
            /\ Goto(r, "aggregate")
            /\ UNCHANGED <<response, fs>>
       \/ Throw(r)
    /\ UNCHANGED appInputs

\* lines 147-148: aggregate_probs and the CNN decision
P_Aggregate(r) ==
    /\ req_pc[r] = "aggregate"
    /\ LET a == aggregate_probs(req_loc[r].per_frame_probs, req_in[r].agg_method) IN
         IF a.kind = "raise" THEN Throw(r)
         ELSE /\ req_loc' = [req_loc EXCEPT ![r].cnn_prob = a.value,
                                            ![r].cnn_pred = CnnPred(a.value)]
              /\ Goto(r, "ensemble")
              /\ UNCHANGED <<response, fs>>
    /\ UNCHANGED appInputs

\* lines 150-158: predict_ensemble when a bundle is loaded
P_Ensemble(r) ==
    /\ req_pc[r] = "ensemble"
    /\ IF ~app_state.ensemble_bundle.loaded
       THEN /\ Goto(r, "risk")
            /\ UNCHANGED <<req_loc, response, fs>>
       ELSE \E outs \in IF _previa_to_bin(req_in[r].previa).kind = "raise"
                        THEN {[s \in ExpectedSlots |-> NaN]} ELSE env.outs :
              LET e == predict_ensemble(app_state.ensemble_bundle.slots,
                                        req_in[r].num_prior_cs, req_in[r].previa,
                                        req_loc[r].cnn_prob, Half, outs).result
              IN  IF e.kind = "raise" THEN Throw(r)
                  ELSE /\ req_loc' = [req_loc EXCEPT ![r].ensemble_result = e.value]
                       /\ Goto(r, "risk")
                       /\ UNCHANGED <<response, fs>>
    /\ UNCHANGED appInputs

\* lines 161-162: the final probability and the risk level
P_Risk(r) ==
    /\ req_pc[r] = "risk"
    /\ LET final_prob == FinalProb(req_loc[r].ensemble_result, req_loc[r].cnn_prob) IN
         req_loc' = [req_loc EXCEPT ![r].final_prob = final_prob,
                                    ![r].risk_level = RiskLevel(final_prob)]
    /\ Goto(r, "respond")
    /\ UNCHANGED <<response, fs, appInputs>>

\* lines 164-179: the JSON response; a NaN in it makes JSONResponse raise
P_Respond(r) ==
    /\ req_pc[r] = "respond"
    /\ LET l == req_loc[r]
           floats == l.per_frame_probs \o <<l.cnn_prob>>
                       \o (IF "ensemble_prob" \in DOMAIN l.ensemble_result
                           THEN <<l.ensemble_result.ensemble_prob>> ELSE <<>>)
       IN  IF ~JsonCompliant(floats) THEN Throw(r)
           ELSE /\ Reply(r, [status |-> 200,
                             cnn_prob |-> Round4(l.cnn_prob),
                             cnn_pred |-> l.cnn_pred,
                             ensemble |-> l.ensemble_result,
                             risk_level |-> l.risk_level])
                /\ Goto(r, "finally")
                /\ UNCHANGED <<req_loc, fs>>
    /\ UNCHANGED appInputs

\* lines 181-185: the exception becomes a 500
P_Except(r) ==
    /\ req_pc[r] = "except"
    /\ Reply(r, HttpError(500))
    /\ Goto(r, "finally")
    /\ UNCHANGED <<req_loc, fs, appInputs>>

\* lines 186-188: if tmp_path and os.path.exists(tmp_path): os.unlink(tmp_path)
P_Finally(r) ==
    /\ req_pc[r] = "finally"
    /\ IF req_loc[r].tmp_path # None /\ req_loc[r].tmp_path \in FileNames(fs)
       THEN fs' = {f \in fs : f.name # req_loc[r].tmp_path}
       ELSE UNCHANGED fs
    /\ Goto(r, "done")
    /\ UNCHANGED <<req_loc, response, appInputs>>

(***************************************************************************)
(* Specifications                                                          *)
(***************************************************************************)
InitAgg == AggInit /\ CropIdle /\ EnsIdle /\ HmIdle /\ GcIdle /\ AppIdle
NextAgg ==
    AggregateCall /\ UNCHANGED <<cropVars, ensVars, hmVars, gcVars, appVars>>
SpecAgg == InitAgg /\ [][NextAgg]_vars

InitCrop == CropInit /\ AggIdle /\ EnsIdle /\ HmIdle /\ GcIdle /\ AppIdle
NextCrop ==
    CropCall /\ UNCHANGED <<aggVars, ensVars, hmVars, gcVars, appVars>>
SpecCrop == InitCrop /\ [][NextCrop]_vars

InitEnsemble == EnsInit /\ AggIdle /\ CropIdle /\ HmIdle /\ GcIdle /\ AppIdle
NextEnsemble ==
    PredictEnsembleCall
        /\ UNCHANGED <<aggVars, cropVars, hmVars, gcVars, appVars>>
SpecEnsemble == InitEnsemble /\ [][NextEnsemble]_vars

InitCovariate == CovInit /\ AggIdle /\ CropIdle /\ HmIdle /\ GcIdle /\ AppIdle
SpecCovariate == InitCovariate /\ [][NextEnsemble]_vars

InitHeatmap == HmInit /\ AggIdle /\ CropIdle /\ EnsIdle /\ GcIdle /\ AppIdle
NextHeatmap ==
    ComputeHeatmapCall
        /\ UNCHANGED <<aggVars, cropVars, ensVars, gcVars, appVars>>
SpecHeatmap == InitHeatmap /\ [][NextHeatmap]_vars

gcOthers == <<aggVars, cropVars, ensVars, hmVars, appVars>>
InitGradcam == GcInit /\ AggIdle /\ CropIdle /\ EnsIdle /\ HmIdle /\ AppIdle
NextGradcam ==
    \/ AllSample   /\ UNCHANGED gcOthers
    \/ AllFrame    /\ UNCHANGED gcOthers
    \/ AllReturn   /\ UNCHANGED gcOthers
    \/ GenNext     /\ UNCHANGED gcOthers
    \/ GenSample   /\ UNCHANGED gcOthers
    \/ GenLoopHead /\ UNCHANGED gcOthers
    \/ GenRaw      /\ UNCHANGED gcOthers
    \/ GenHeatmap  /\ UNCHANGED gcOthers
    \/ GenEncode   /\ UNCHANGED gcOthers
    \/ GenYield    /\ UNCHANGED gcOthers
SpecGradcam == InitGradcam /\ [][NextGradcam]_vars

\* compute_gradcam_generator alone; the caller calls next() or stops
GeneratorInit ==
    /\ cnn_model \in CnnModels
    /\ frames \in Batches
    /\ max_frames \in 0..MaxCap
    /\ all_pc = "idle"
    /\ all_locals = NoAllLocals
    /\ all_return = None
    /\ gen_pc = "NotStarted"
    /\ gen_locals = NoGenLocals
    /\ yielded = <<>>
InitGenerator == GeneratorInit /\ AggIdle /\ CropIdle /\ EnsIdle /\ HmIdle /\ AppIdle
NextGenerator ==
    \/ GenNext     /\ UNCHANGED gcOthers
    \/ GenSample   /\ UNCHANGED gcOthers
    \/ GenLoopHead /\ UNCHANGED gcOthers
    \/ GenRaw      /\ UNCHANGED gcOthers
    \/ GenHeatmap  /\ UNCHANGED gcOthers
    \/ GenEncode   /\ UNCHANGED gcOthers
    \/ GenYield    /\ UNCHANGED gcOthers
SpecGenerator == InitGenerator /\ [][NextGenerator]_vars

appOthers == <<aggVars, cropVars, ensVars, hmVars, gcVars>>
InitPredict == AppInit /\ AggIdle /\ CropIdle /\ EnsIdle /\ HmIdle /\ GcIdle
NextPredict ==
    \E r \in Requests :
        \/ P_Start(r)      /\ UNCHANGED appOthers
        \/ P_Read(r)       /\ UNCHANGED appOthers
        \/ P_MkTemp(r)     /\ UNCHANGED appOthers
        \/ P_Write(r)      /\ UNCHANGED appOthers
        \/ P_Assign(r)     /\ UNCHANGED appOthers
        \/ P_Load(r)       /\ UNCHANGED appOthers
        \/ P_Preprocess(r) /\ UNCHANGED appOthers
        \/ P_Cnn(r)        /\ UNCHANGED appOthers
        \/ P_Aggregate(r)  /\ UNCHANGED appOthers
        \/ P_Ensemble(r)   /\ UNCHANGED appOthers
        \/ P_Risk(r)       /\ UNCHANGED appOthers
        \/ P_Respond(r)    /\ UNCHANGED appOthers
        \/ P_Except(r)     /\ UNCHANGED appOthers
        \/ P_Finally(r)    /\ UNCHANGED appOthers
SpecPredict == InitPredict /\ [][NextPredict]_vars

InitTemp == TempInit /\ AggIdle /\ CropIdle /\ EnsIdle /\ HmIdle /\ GcIdle
SpecTemp == InitTemp /\ [][NextPredict]_vars

(***************************************************************************)
(* ensemble_predictor.load_ensemble, called by app.lifespan, and the       *)
(* prediction that later runs on the bundle it stored                      *)
(***************************************************************************)
\* a variant that returns the unpickled object without looking at its keys
load_ensemble_unchecked(keys) == Returned(keys)

\* keys: set(bundle.keys()) of the unpickled object
load_ensemble(keys) ==
    LET expected == ExpectedSlots
        missing  == expected \ keys
    IN  IF missing # {} THEN Raised("ValueError")
        ELSE Returned(keys)

\* the keys a pickled bundle may carry: the three slots and others
PickleKeys  == ExpectedSlots \cup {"scaler", "meta"}
PickledBundles == SUBSET PickleKeys

\* before startup: ensemble.pkl holds any dict; one request is waiting
BundleInit ==
    /\ bundle \in PickledBundles
    /\ number_prior_cs = 0
    /\ previa \in {S_yes, <<"N">>, <<"m","a","y","b","e">>}
    /\ cnn_prob = Half
    /\ threshold = Half
    /\ ens_pc = "startup"
    /\ model_out = None
    /\ ens_queries = <<>>
    /\ ens_result = None

\* app.lifespan up to its yield: the models are loaded when their files exist
Lifespan ==
    /\ ens_pc = "startup"
    /\ \E cnn_exists \in BOOLEAN, pkl_exists \in BOOLEAN :
         LET cnn == IF cnn_exists THEN "cnn" ELSE None
             r   == load_ensemble(bundle)
         IN  IF ~pkl_exists
             THEN /\ app_state' = [cnn_model |-> cnn, ensemble_bundle |-> NoBundle]
                  /\ ens_pc' = "serving"
                  /\ UNCHANGED ens_result
             ELSE IF r.kind = "raise"
             THEN /\ app_state' = [cnn_model |-> cnn, ensemble_bundle |-> NoBundle]
                  /\ ens_pc' = "startup_failed"
                  /\ ens_result' = r
             ELSE /\ app_state' = [cnn_model |-> cnn,
                                   ensemble_bundle |-> Bundle(r.value)]
                  /\ ens_pc' = "serving"
                  /\ UNCHANGED ens_result
    /\ UNCHANGED <<bundle, number_prior_cs, previa, cnn_prob, threshold,
                   model_out, ens_queries>>

\* app.predict lines 150-158 on the stored bundle
ServeEnsemble ==
    /\ ens_pc = "serving"
    /\ app_state.cnn_model # None
    /\ app_state.ensemble_bundle.loaded
    /\ \E outs \in OutputsFor(previa) :
         LET r == predict_ensemble(app_state.ensemble_bundle.slots,
                                   number_prior_cs, previa, cnn_prob, Half, outs)
         IN  /\ ens_result' = r.result
             /\ ens_queries' = r.queries
             /\ model_out' = [s \in {r.queries[i].slot : i \in 1..Len(r.queries)}
                                |-> outs[s]]
    /\ ens_pc' = "done"
    /\ UNCHANGED <<bundle, number_prior_cs, previa, cnn_prob, threshold, app_state>>

\* app.predict without a CNN (503) or without a bundle: no ensemble prediction
ServeWithoutEnsemble ==
    /\ ens_pc = "serving"
    /\ app_state.cnn_model = None \/ ~app_state.ensemble_bundle.loaded
    /\ ens_pc' = "skipped"
    /\ UNCHANGED <<bundle, number_prior_cs, previa, cnn_prob, threshold,
                   model_out, ens_queries, ens_result, app_state>>

InitBundle == BundleInit /\ AggIdle /\ CropIdle /\ HmIdle /\ GcIdle /\ AppIdle
NextBundle ==
    \/ Lifespan
         /\ UNCHANGED <<aggVars, cropVars, hmVars, gcVars,
                        env, req_in, req_pc, req_loc, response, fs>>
    \/ ServeEnsemble
         /\ UNCHANGED <<aggVars, cropVars, hmVars, gcVars,
                        env, req_in, req_pc, req_loc, response, fs>>
    \/ ServeWithoutEnsemble
         /\ UNCHANGED <<aggVars, cropVars, hmVars, gcVars,
                        env, req_in, req_pc, req_loc, response, fs>>
SpecBundle == InitBundle /\ [][NextBundle]_vars

(***************************************************************************)
(* Claims about aggregate_probs (checked under SpecAgg)                    *)
(***************************************************************************)
KnownMethods == {S_mean, S_max, S_median}

\* the positions of probs that hold a number
NotNaNIdx == {i \in 1..Len(probs) : ~probs[i].nan}

RECURSIVE SumOver(_)
SumOver(I) ==
    IF I = {} THEN Zero
    ELSE LET i == CHOOSE j \in I : TRUE IN Add(probs[i], SumOver(I \ {i}))

\* x is the r-th smallest of the numbers of probs
IsOrderStat(x, r) ==
    /\ \E i \in NotNaNIdx : NumEq(x, probs[i])
    /\ Cardinality({i \in NotNaNIdx : GT(x, probs[i])}) <= r - 1
    /\ Cardinality({i \in NotNaNIdx : GE(x, probs[i])}) >= r

IsMeanOfNumbers(x) ==
    NumEq(x, DivInt(SumOver(NotNaNIdx), Cardinality(NotNaNIdx)))

IsMaxOfNumbers(x) ==
    /\ \E i \in NotNaNIdx : NumEq(x, probs[i])
    /\ \A i \in NotNaNIdx : GE(x, probs[i])

IsMedianOfNumbers(x) ==
    LET k == Cardinality(NotNaNIdx) IN
    IF k % 2 = 1 THEN IsOrderStat(x, (k + 1) \div 2)
    ELSE \E i, j \in NotNaNIdx :
            /\ IsOrderStat(probs[i], k \div 2)
            /\ IsOrderStat(probs[j], k \div 2 + 1)
            /\ NumEq(x, DivInt(Add(probs[i], probs[j]), 2))

\* C4 (as claimed): an unknown method name raises for every vector, the
\* empty one included, and the spelling's case does not change the result.
C4_UnknownMethodAlwaysRaises ==
    agg_pc = "done" =>
        /\ (StrLower(method) \notin KnownMethods => agg_result.kind = "raise")
        /\ (StrLower(method) \in KnownMethods =>
                /\ agg_result.kind = "return"
                /\ (Len(probs) > 0 /\ StrLower(method) = S_max
                        => Same(agg_result.value, NanMax(probs)))
                /\ (Len(probs) > 0 /\ StrLower(method) = S_mean
                        => Same(agg_result.value, NanMean(probs)))
                /\ (Len(probs) > 0 /\ StrLower(method) = S_median
                        => Same(agg_result.value, NanMedian(probs))))

\* C5: for mean, max and median the call returns (never raises); the value
\* is NaN exactly when probs holds no number (empty or all NaN), and
\* otherwise it is that reduction over the numbers of probs alone.
C5_NanIgnoringReduction ==
    (agg_pc = "done" /\ StrLower(method) \in KnownMethods) =>
        /\ agg_result.kind = "return"
        /\ agg_result.value.nan <=> (NotNaNIdx = {})
        /\ (NotNaNIdx # {} /\ StrLower(method) = S_mean
                => IsMeanOfNumbers(agg_result.value))
        /\ (NotNaNIdx # {} /\ StrLower(method) = S_max
                => IsMaxOfNumbers(agg_result.value))
        /\ (NotNaNIdx # {} /\ StrLower(method) = S_median
                => IsMedianOfNumbers(agg_result.value))

\* a vector mixing NaN with two different numbers has been reduced by median
C5_Witness ==
    /\ agg_pc = "done"
    /\ StrLower(method) = S_median
    /\ Len(probs) = 3
    /\ probs[2].nan
    /\ GT(probs[1], probs[3])
    /\ agg_result.kind = "return"
    /\ ~agg_result.value.nan

(***************************************************************************)
(* Claims about _crop (checked under SpecCrop)                             *)
(***************************************************************************)
\* C7: the crop never returns an empty region; a frame with h <= 65 or
\* w - 150 <= 66 is returned whole, and any other frame loses exactly 65
\* top rows, 66 left columns and 150 right columns and no bottom row.
C7_CropGuard ==
    crop_pc = "done" =>
        /\ crop_result.rows.len >= 1
        /\ crop_result.cols.len >= 1
        /\ IF img.h <= 65 \/ img.w - 150 <= 66
           THEN crop_result = [rows |-> [start |-> 0, len |-> img.h],
                               cols |-> [start |-> 0, len |-> img.w]]
           ELSE /\ crop_result.rows = [start |-> 65, len |-> img.h - 65]
                /\ crop_result.cols = [start |-> 66, len |-> img.w - 216]
                /\ crop_result.rows.start + crop_result.rows.len = img.h

\* a frame tall enough but too narrow for the crop has been passed through
C7_Witness ==
    /\ crop_pc = "done"
    /\ img.h > 65
    /\ img.w > 150
    /\ img.w - 150 <= 66
    /\ crop_result.cols = [start |-> 0, len |-> img.w]

(***************************************************************************)
(* Claims about the covariate mapping (checked under SpecCovariate)        *)
(***************************************************************************)
\* s is a spelling of word w, ignoring case
EqIgnoreCase(s, w) ==
    /\ Len(s) = Len(w)
    /\ \A i \in 1..Len(w) : s[i] = w[i] \/ s[i] = UpperChar(w[i])

\* s is a spelling of w with any whitespace before and after it
EqPadded(s, w) ==
    \E i \in 1..(Len(s) + 1) : \E j \in 0..Len(s) :
        /\ j - i + 1 = Len(w)
        /\ \A k \in 1..(i - 1) : s[k] \in Whitespace
        /\ \A k \in (j + 1)..Len(s) : s[k] \in Whitespace
        /\ EqIgnoreCase(SubSeq(s, i, j), w)

\* the binary covariate in the feature row of every query made
QueriedCovariates == {ens_queries[i].X[2] : i \in 1..Len(ens_queries)}

\* C3 (as claimed): exactly the spellings of yes/y map to 1 and of no/n to
\* 0; every other string, padded ones included, raises and queries no model.
C3_OnlyExactSpellingsAccepted ==
    ens_pc = "done" =>
        /\ (EqIgnoreCase(previa, S_yes) \/ EqIgnoreCase(previa, S_y))
              => QueriedCovariates = {1}
        /\ (EqIgnoreCase(previa, S_no) \/ EqIgnoreCase(previa, S_n))
              => QueriedCovariates = {0}
        /\ ~(\E w \in {S_yes, S_y, S_no, S_n} : EqIgnoreCase(previa, w))
              => (ens_result = Raised("ValueError") /\ ens_queries = <<>>)

\* C3 (amended): a string that, with leading and trailing whitespace
\* removed, spells yes/y maps to 1 and one that spells no/n maps to 0; every
\* other string raises and no model is queried.
C3_PaddedSpellingsAccepted ==
    ens_pc = "done" =>
        /\ (EqPadded(previa, S_yes) \/ EqPadded(previa, S_y))
              => (QueriedCovariates = {1} /\ ens_result.kind = "return")
        /\ (EqPadded(previa, S_no) \/ EqPadded(previa, S_n))
              => (QueriedCovariates = {0} /\ ens_result.kind = "return")
        /\ ~(\E w \in {S_yes, S_y, S_no, S_n} : EqPadded(previa, w))
              => (ens_result = Raised("ValueError") /\ ens_queries = <<>>)

\* a spelling of yes with whitespace before it has been mapped to 1
C3_Witness ==
    /\ ens_pc = "done"
    /\ Len(previa) = 4
    /\ previa[1] \in Whitespace
    /\ EqIgnoreCase(SubSeq(previa, 2, 4), S_yes)
    /\ previa[2] = "Y"
    /\ QueriedCovariates = {1}
    /\ ens_result.kind = "return"

(***************************************************************************)
(* Claims about predict_ensemble (checked under SpecEnsemble)              *)
(***************************************************************************)
\* C6: a call that returns gives back the three sub-model outputs, their
\* sum divided by 3 as ensemble_prob, ensemble_pred = 1 exactly when
\* ensemble_prob >= threshold, and has queried log, rf, gb in this order
\* with the row [prior-surgery count, binary covariate, CNN score].
C6_EnsembleMean ==
    (ens_pc = "done" /\ ens_result.kind = "return") =>
        LET r == ens_result.value
            a == model_out["log_model"]
            b == model_out["rf_model"]
            c == model_out["gb_model"]
            bin == IF StrLower(StrStrip(previa)) \in {S_yes, S_y} THEN 1 ELSE 0
            row == <<number_prior_cs, bin, cnn_prob>>
        IN  /\ r.log_prob = a /\ r.rf_prob = b /\ r.gb_prob = c
            /\ ~r.ensemble_prob.nan
            /\ 3 * r.ensemble_prob.num * a.den * b.den * c.den
                 = r.ensemble_prob.den * (a.num * b.den * c.den
                                          + b.num * a.den * c.den
                                          + c.num * a.den * b.den)
            /\ r.ensemble_pred \in {0, 1}
            /\ r.ensemble_pred = 1 <=>
                 r.ensemble_prob.num * threshold.den
                    >= threshold.num * r.ensemble_prob.den
            /\ ens_queries = <<[slot |-> "log_model", X |-> row],
                               [slot |-> "rf_model",  X |-> row],
                               [slot |-> "gb_model",  X |-> row]>>

\* three different outputs whose mean is exactly the threshold gave decision 1
C6_Witness ==
    /\ ens_pc = "done"
    /\ ens_result.kind = "return"
    /\ NumEq(ens_result.value.ensemble_prob, threshold)
    /\ ens_result.value.ensemble_pred = 1
    /\ GT(ens_result.value.log_prob, ens_result.value.rf_prob)
    /\ GT(ens_result.value.rf_prob, ens_result.value.gb_prob)

(***************************************************************************)
(* Claims about compute_heatmap (checked under SpecHeatmap)                *)
(***************************************************************************)
\* NPix times the gradient-weighted sum of the activation channels at p
WSum(p) ==
    LET gsum(c) == SumOfInts([q \in Pixels |-> grads[q][c]], Pixels)
    IN  SumOfInts([c \in Channels |-> conv_out[p][c] * gsum(c)], Channels)

HeatmapInUnitRange ==
    \A p \in Pixels :
        /\ ~heatmap[p].nan
        /\ heatmap[p].den > 0
        /\ 0 <= heatmap[p].num
        /\ heatmap[p].num <= heatmap[p].den
HeatmapMaxIsOne ==
    /\ \E p \in Pixels : heatmap[p].num = heatmap[p].den /\ heatmap[p].den > 0
    /\ \A p \in Pixels : heatmap[p].num <= heatmap[p].den
HeatmapAllZero == \A p \in Pixels : ~heatmap[p].nan /\ heatmap[p].num = 0

\* C8 (as claimed): a weighted sum that is not all-zero gives a heatmap with
\* maximum exactly 1, an all-zero sum gives an all-zero heatmap, and every
\* value lies in [0, 1].
C8_NonZeroSumNormalized ==
    hm_pc = "done" =>
        /\ (\E p \in Pixels : WSum(p) # 0) => HeatmapMaxIsOne
        /\ (\A p \in Pixels : WSum(p) = 0) => HeatmapAllZero
        /\ HeatmapInUnitRange

\* C8 (amended): a weighted sum with a positive entry gives a heatmap with
\* maximum exactly 1, a sum with no positive entry (all-zero, or negative
\* somewhere and positive nowhere) gives an all-zero heatmap, and every
\* value lies in [0, 1].
C8_PositiveSumNormalized ==
    hm_pc = "done" =>
        /\ (\E p \in Pixels : WSum(p) > 0) => HeatmapMaxIsOne
        /\ (\A p \in Pixels : WSum(p) <= 0) => HeatmapAllZero
        /\ HeatmapInUnitRange

\* a sum positive at one pixel and negative at another has been normalized
C8_Witness ==
    /\ hm_pc = "done"
    /\ WSum(1) > 0
    /\ WSum(2) < 0
    /\ heatmap[1].num = heatmap[1].den
    /\ heatmap[2].num = 0

(***************************************************************************)
(* Claims about the saliency drivers (checked under SpecGradcam)           *)
(***************************************************************************)
\* the sampling contract for an index list xs over n frames under cap c
SampledWell(xs, n, c) ==
    /\ Len(xs) <= c
    /\ Len(xs) >= 1
    /\ xs[1] = 0
    /\ xs[Len(xs)] = n - 1
    /\ \A i \in 1..Len(xs) : xs[i] \in 0..(n - 1)
    /\ \A i \in 1..(Len(xs) - 1) : xs[i] < xs[i + 1]

AllSampled == all_pc \notin {"call", "idle"}
GenSampled == gen_pc \notin {"NotStarted", "Sampling", "idle"}

\* C1 (as claimed): for every cap C with 1 <= C < N, the sampling of both
\* drivers gives at most C strictly increasing indices in 0..N-1, the first
\* 0 and the last N-1.
C1_SamplingFromCapOne ==
    (1 <= max_frames /\ max_frames < Len(frames)) =>
        /\ AllSampled =>
              (all_pc # "raised"
                 /\ SampledWell(all_locals.indices, Len(frames), max_frames))
        /\ GenSampled =>
              (gen_pc # "Raised"
                 /\ SampledWell(gen_locals.indices, Len(frames), max_frames))

\* C1 (amended): for every cap C with 2 <= C < N, the sampling of both
\* drivers gives at most C strictly increasing indices in 0..N-1, the first
\* 0 and the last N-1.
C1_SamplingFromCapTwo ==
    (2 <= max_frames /\ max_frames < Len(frames)) =>
        /\ AllSampled =>
              (all_pc # "raised"
                 /\ SampledWell(all_locals.indices, Len(frames), max_frames))
        /\ GenSampled =>
              (gen_pc # "Raised"
                 /\ SampledWell(gen_locals.indices, Len(frames), max_frames))

\* both drivers have sampled 4 frames under cap 3, where 1.5 rounds to 2
C1_Witness ==
    /\ Len(frames) = 4
    /\ max_frames = 3
    /\ AllSampled
    /\ GenSampled
    /\ all_locals.indices = <<0, 2, 3>>
    /\ gen_locals.indices = <<0, 2, 3>>

\* C2: for the same model, batch and cap, the generator pulled to exhaustion
\* has yielded as many results as compute_gradcam_all returns, with the same
\* frame_idx, raw_b64 and heatmap_b64 at every position; and one of them
\* raises exactly when the other does.
C2_BatchEqualsProgressive ==
    /\ (all_pc = "done" /\ gen_pc = "Done") =>
          /\ Len(yielded) = Len(all_return)
          /\ \A k \in 1..Len(all_return) :
                /\ yielded[k].frame_idx = all_return[k].frame_idx
                /\ yielded[k].raw_b64 = all_return[k].raw_b64
                /\ yielded[k].heatmap_b64 = all_return[k].heatmap_b64
    /\ (all_pc = "raised" /\ GenSampled) => gen_pc = "Raised"
    /\ (gen_pc = "Raised" /\ AllSampled) => all_pc = "raised"

\* both modes have finished on a sampled batch whose frames differ
C2_Witness ==
    /\ all_pc = "done"
    /\ gen_pc = "Done"
    /\ Len(frames) = 4
    /\ max_frames = 3
    /\ Len(yielded) = 3
    /\ frames[1].val # frames[3].val
    /\ yielded[2].frame_idx = 2
    /\ yielded[1].heatmap_b64 # yielded[2].heatmap_b64

(***************************************************************************)
(* Claims about predict (C9 under SpecPredict, C10 under SpecTemp)         *)
(***************************************************************************)
\* the request has computed its risk level
RiskComputed(r) == req_loc[r].risk_level # None

AtLeastHalf(x) == ~x.nan /\ 2 * x.num >= x.den

\* C9: the final probability is the ensemble's combined probability when a
\* bundle is loaded and the aggregated CNN probability otherwise; risk_level
\* is HIGH exactly when it is >= 0.5, else LOW; cnn_pred is 1 exactly when
\* the aggregated CNN probability is >= 0.5; the response carries both; and
\* the worked example (max of the ten probabilities 0.9, sub-model outputs
\* 0.8, 0.6, 0.7) gives 0.9, 1, 0.7, 1, HIGH.
C9_RiskLevel ==
    \A r \in Requests : RiskComputed(r) =>
        LET l == req_loc[r]
            final == IF app_state.ensemble_bundle.loaded
                     THEN l.ensemble_result.ensemble_prob ELSE l.cnn_prob
        IN  /\ Same(l.final_prob, final)
            /\ l.risk_level = (IF AtLeastHalf(final) THEN "HIGH" ELSE "LOW")
            /\ l.cnn_pred = (IF AtLeastHalf(l.cnn_prob) THEN 1 ELSE 0)
            /\ (req_pc[r] = "done" /\ response[r].status = 200) =>
                  /\ response[r].risk_level = l.risk_level
                  /\ response[r].cnn_pred = l.cnn_pred
            /\ (l.per_frame_probs = ExampleProbs
                  /\ StrLower(req_in[r].agg_method) = S_max) =>
                  (l.cnn_prob = Tenth(9) /\ l.cnn_pred = 1)
            /\ (app_state.ensemble_bundle.loaded
                  /\ l.ensemble_result.log_prob = Tenth(8)
                  /\ l.ensemble_result.rf_prob = Tenth(6)
                  /\ l.ensemble_result.gb_prob = Tenth(7)) =>
                  /\ NumEq(l.ensemble_result.ensemble_prob, Tenth(7))
                  /\ l.ensemble_result.ensemble_pred = 1
                  /\ l.risk_level = "HIGH"

\* a CNN score below 0.5 with an ensemble probability of exactly 0.5 has
\* been answered: decision 0, risk HIGH
C9_Witness ==
    /\ RiskComputed(1)
    /\ req_pc[1] = "done"
    /\ response[1].status = 200
    /\ app_state.ensemble_bundle.loaded
    /\ GT(Half, req_loc[1].cnn_prob)
    /\ req_loc[1].cnn_pred = 0
    /\ NumEq(req_loc[1].final_prob, Half)
    /\ response[1].risk_level = "HIGH"

FilesOf(r) == {f \in fs : f.owner = r}

\* C10 (as claimed): a request that has ended has left no temporary file
\* behind, however it ended, and a request in progress never holds the
\* path of another request's file.
C10_TempFileReleased ==
    \A r \in Requests :
        /\ req_pc[r] = "done" => FilesOf(r) = {}
        /\ (req_pc[r] # "done" /\ req_loc[r].tmp_path # None) =>
              \A f \in fs : f.name = req_loc[r].tmp_path => f.owner = r

\* what the finally clause does achieve: a request that ended after its
\* tmp_path was assigned has left no file behind
TempFileReleasedOnceAssigned ==
    \A r \in Requests :
        (req_pc[r] = "done" /\ req_loc[r].tmp_path # None) => FilesOf(r) = {}


(***************************************************************************)
(* Claims about load_ensemble                                              *)
(***************************************************************************)
BundleStored == ens_pc \in {"serving", "done"} /\ app_state.ensemble_bundle.loaded
MissingSlotFailure ==
    ens_pc = "done" /\ ens_result.kind = "raise" /\ ens_result.value = "KeyError"

\* C11 (as stated): load_ensemble raises whenever the bundle does not hold
\* exactly the three slots log_model, rf_model and gb_model, so a stored
\* bundle has exactly these three slots and prediction never misses a slot.
C11_ExactlyThreeSlotsOrRaise ==
    /\ (BundleStored => app_state.ensemble_bundle.slots = ExpectedSlots)
    /\ ~MissingSlotFailure

\* C11 (amended): load_ensemble raises ValueError exactly when one of the
\* three slots is missing from the bundle (other keys are accepted), so a
\* stored bundle is the unpickled one and has all three slots, and a
\* prediction run on it queries all three models or stops at the covariate,
\* never at a missing slot.
C11_MissingSlotFailsAtLoad ==
    /\ (BundleStored =>
          /\ app_state.ensemble_bundle.slots = bundle
          /\ ExpectedSlots \subseteq app_state.ensemble_bundle.slots)
    /\ (ens_pc = "startup_failed" =>
          /\ ~(ExpectedSlots \subseteq bundle)
          /\ ens_result = Raised("ValueError")
          /\ ~app_state.ensemble_bundle.loaded)
    /\ (ens_pc = "done" =>
          /\ ~MissingSlotFailure
          /\ (ens_result.kind = "return" => Len(ens_queries) = Len(Slots)))

\* a bundle with an extra key was stored and a prediction on it returned
C11_Witness ==
    /\ ens_pc = "done"
    /\ app_state.ensemble_bundle.loaded
    /\ "scaler" \in app_state.ensemble_bundle.slots
    /\ ens_result.kind = "return"

\* a bundle without rf_model was refused at startup
C11_RefusedWitness ==
    /\ ens_pc = "startup_failed"
    /\ bundle = {"log_model", "gb_model"}


(***************************************************************************)
(* Claims about the protocol of compute_gradcam_generator                  *)
(***************************************************************************)
GenBeforeSampling == gen_pc \in {"NotStarted", "Sampling", "Raised"}
GenInFrame        == gen_pc \in {"Raw", "Heatmap", "Encode", "Yield"}

\* nothing of a frame exists before the sampling is over, and afterwards the
\* index list and the total are those of the sampling
SamplingFirst ==
    /\ (GenBeforeSampling =>
          /\ gen_locals.indices = <<>>
          /\ gen_locals.progress = 0
          /\ yielded = <<>>)
    /\ (~GenBeforeSampling =>
          /\ generator_indices(Len(frames), max_frames).kind = "return"
          /\ gen_locals.indices = generator_indices(Len(frames), max_frames).value
          /\ gen_locals.total = Len(gen_locals.indices))

\* the k-th result is the finished result of the k-th sampled frame
WholeFrameYields ==
    \A k \in 1..Len(yielded) :
        LET y == yielded[k]
            f == FrameAt(frames, y.frame_idx)
        IN  /\ y.progress = k
            /\ k <= Len(gen_locals.indices)
            /\ y.frame_idx = gen_locals.indices[k]
            /\ y.total = Len(gen_locals.indices)
            /\ y.raw_b64 = RawB64(f)
            /\ y.heatmap_b64 = heatmap_to_b64_jpeg(HeatmapOf(cnn_model, f),
                                                   f.H, f.W, _JPEG_QUALITY)

\* the frame being worked on is the one after the last yielded, and only
\* between a next() and the following yield
NoWorkAhead ==
    /\ (GenInFrame => gen_locals.progress = Len(yielded) + 1)
    /\ (~GenInFrame => gen_locals.progress = Len(yielded))
    /\ (gen_pc = "Done" => Len(yielded) = gen_locals.total)

\* a suspended generator does nothing until next() is called on it
SuspendedIsIdle ==
    gen_pc = "Suspended" =>
        /\ gen_locals' = gen_locals
        /\ yielded' = yielded
        /\ gen_pc' \in {"Suspended", "LoopHead"}

\* how far the generator has come: six steps per frame
GenOffset ==
    CASE gen_pc = "NotStarted" -> 0
      [] gen_pc = "Sampling"   -> 1
      [] gen_pc = "Raised"     -> 2
      [] gen_pc = "Raw"        -> 0
      [] gen_pc = "Heatmap"    -> 1
      [] gen_pc = "Encode"     -> 2
      [] gen_pc = "Yield"      -> 3
      [] gen_pc = "Suspended"  -> 4
      [] gen_pc = "LoopHead"   -> 5
      [] gen_pc = "Done"       -> 6
GenMeasure == 6 * gen_locals.progress + GenOffset

\* every step of the generator is a step forward, one yield at most
GenAdvances ==
    /\ GenMeasure' > GenMeasure
    /\ Len(yielded') \in {Len(yielded), Len(yielded) + 1}
    /\ \A k \in 1..Len(yielded) : yielded'[k] = yielded[k]

\* a generator that is neither Done nor Raised is at a step it can take: the
\* frame it works on exists, and it has not run past its last frame
GenCanGoOn ==
    /\ gen_pc \in {"NotStarted", "Sampling", "LoopHead", "Raw", "Heatmap",
                   "Encode", "Yield", "Suspended", "Done", "Raised"}
    /\ (GenInFrame => gen_locals.idx \in 0..(Len(frames) - 1))
    /\ GenMeasure <= 6 * Len(frames) + 6

\* C12: compute_gradcam_generator samples before it touches a frame; every
\* yield carries the finished raw image and heatmap image of its own frame;
\* the k-th yield has progress k, the k-th sampled index and the one total;
\* a suspended generator does no work on the next frame before next() is
\* called; and a generator pulled again and again always has a next step,
\* every step is a step forward towards Done, and Done comes after exactly
\* total yields.
C12_ProgressiveProtocol ==
    /\ [](SamplingFirst /\ WholeFrameYields /\ NoWorkAhead /\ GenCanGoOn)
    /\ [][SuspendedIsIdle /\ GenAdvances]_<<gen_pc, gen_locals.progress, Len(yielded)>>

\* a sampled stream (fewer results than frames) pulled to its end after
\* several yields of frames with different heatmaps
C12_Witness ==
    /\ gen_pc = "Done"
    /\ Len(yielded) >= 2
    /\ Len(yielded) < Len(frames)
    /\ yielded[1].heatmap_b64 # yielded[2].heatmap_b64

====
